---- MODULE Spec2Model ----
(***************************************************************************)
(* Model of codebase-rag-chat: the chunker and embedder of                 *)
(* analysis_modules/semantic_analyzer.py, the indexing run and the query   *)
(* loop of main.py, and the command dispatch of cli.py.                    *)
(*                                                                         *)
(* Text is modelled structurally.  A line is the sequence of its           *)
(* whitespace-delimited words, so line.split() is the line itself and      *)
(* len(line.split()) its length.  A string is the sequence of its lines,   *)
(* i.e. what str.split('\n') returns: never empty, the empty string being  *)
(* the one-element sequence holding the empty line.                        *)
(***************************************************************************)
EXTENDS Integers, Sequences, FiniteSets, TLC

VARIABLES
    chunk_size,   \* SemanticAnalyzer.chunk_size
    overlap,      \* SemanticAnalyzer.overlap
    code,         \* the text handed to _chunk_code
    chunks,       \* the trace of the chunker's emissions for code
    cpc,          \* position of the chunker caller: "ready" | "done"
    echunks,      \* the List[str] handed to _generate_embeddings
    responses,    \* what the embedding service answers to the i-th request
    embeddings,   \* the Dict[str, List[float]] _generate_embeddings returns
    requests,     \* number of POSTs _generate_embeddings has issued
    epc,          \* position of the embedder caller: "ready" | "done" | "raised"
    modules,      \* structure['modules'] with each file's content on disk
    kb_exists,    \* the "code_embeddings" collection exists under output/chroma_db
    store,        \* the records of the collection
    pc,           \* position of the current process in cli.main
    hash_seed,    \* the string-hash seed of the current process
    semantics,    \* results['semantics'], the argument of setup_knowledge_base
    flushes,      \* the batches handed to collection.add that succeeded, in order
    buffer,       \* the batch buffers when setup_knowledge_base was left
    total_processed, \* setup_knowledge_base's counter of buffered records
    cursor,       \* entries of semantic_results the batching loop has gone through
    failure,      \* what made the current process raise, "none" if nothing
    run_log,      \* one entry per completed indexing run
    qpc,          \* position of a "query" process in cli.main and query_interface
    question,     \* the line read by input()
    asked,        \* lines read so far in the session
    calls,        \* the calls made to the outside by the session, in order
    qfailure,     \* what made the session raise, "none" if nothing
    printed,      \* what the query process printed about failures, in order
    metadatas,    \* results['metadatas'][0] of the last collection.query
    unique_files  \* the ranked files handed to the generation service

configVars == <<chunk_size, overlap>>
chunkVars == <<code, chunks, cpc>>
embedVars == <<echunks, responses, embeddings, requests, epc>>
diskVars == <<modules, kb_exists, store>>
procVars == <<pc, hash_seed, semantics, flushes, buffer, total_processed, cursor, failure, run_log>>
indexVars == <<diskVars, procVars>>
queryVars == <<qpc, question, asked, calls, qfailure, printed, metadatas, unique_files>>
vars == <<configVars, chunkVars, embedVars, indexVars, queryVars>>

(***************************************************************************)
(* Bounds of the model.                                                    *)
(***************************************************************************)
MaxLines == 4
MaxWords == 2
MaxChunkSize == 3
MaxOverlap == 2
MaxChunks == 3      \* chunks handed to the embedder on its own
NumVectors == 2     \* distinct non-empty vectors the service returns
MaxFiles == 2       \* files of the indexed tree
MaxRuns == 2        \* processes started one after the other
NumSeeds == 2       \* string-hash seeds a process may draw
MaxBatches == 2     \* full batches the first file of a large result can fill
MaxExtra == 2       \* chunks of that file beyond its full batches
MaxQuestions == 4   \* lines a query session reads
MaxMatches == 6     \* raw matches handed to the file ranking
MaxFileLines == 4   \* lines of a file chunked under the default configuration

\* setup_knowledge_base: batch_size
batch_size == 100

\* DEFAULT_CONFIG: rag.knowledge_base.indexing_strategy
default_chunk_size == 1024
default_overlap == 128

\* query_interface: n_results of collection.query
n_results == 8

\* query_interface: the [:5] of the file ranking
top_files == 5

(***************************************************************************)
(* Lines and strings.                                                      *)
(***************************************************************************)
EmptyLine == <<>>
TextLine(n) == [i \in 1..n |-> "w"]
ImportReactLine == <<"import", "React">>
ExportComponentLine == <<"export", "function", "App">>
ExportConstLine == <<"export", "const", "foo">>
CloseBraceLine == <<"}">>

LineSet ==
    {TextLine(n) : n \in 0..MaxWords}
        \cup {ImportReactLine, ExportComponentLine, ExportConstLine, CloseBraceLine}

EmptyString == <<EmptyLine>>

\* code.split('\n'): a string is kept as the list of its lines
SplitLines(s) == s

\* '\n'.join(lines): joining no line gives the empty string, the same text
\* that joining one empty line gives
Join(lines) == IF lines = <<>> THEN EmptyString ELSE lines

\* len(line.split())
WordCount(line) == Len(line)

RECURSIVE SumWords(_)
SumWords(lines) ==
    IF lines = <<>> THEN 0
    ELSE WordCount(Head(lines)) + SumWords(Tail(lines))

\* lst[-n:] for n >= 0: Python reads -0 as 0, so lst[-0:] is the whole list
LastN(lst, n) ==
    IF n = 0 \/ n >= Len(lst) THEN lst
    ELSE SubSeq(lst, Len(lst) - n + 1, Len(lst))

\* code.startswith(s) for s in 'import React', 'export function', 'export const'
StartsWithReact(s) ==
    LET first == SplitLines(s)[1]
    IN  /\ Len(first) >= 2
        /\ \/ first[1] = "import" /\ first[2] = "React"
           \/ first[1] = "export" /\ first[2] \in {"function", "const"}

IsCapital(word) == word \in {"App"}

\* re.match(r'export (default )?(function|const) [A-Z]', line)
MatchesComponent(line) ==
    \/ /\ Len(line) >= 3
       /\ line[1] = "export"
       /\ line[2] \in {"function", "const"}
       /\ IsCapital(line[3])
    \/ /\ Len(line) >= 4
       /\ line[1] = "export"
       /\ line[2] = "default"
       /\ line[3] \in {"function", "const"}
       /\ IsCapital(line[4])

\* line.strip() == '}'
IsCloseBrace(line) == line = CloseBraceLine

(***************************************************************************)
(* SemanticAnalyzer._chunk_python.  Each emission is recorded with the     *)
(* buffer it joins (lines), how many of its leading lines were carried     *)
(* over from the previous emission (seed) and the index of the input line  *)
(* being processed when it was emitted (at; 0 for the trailing emission).  *)
(***************************************************************************)
Emission(emitted, seed, at) == [lines |-> emitted, seed |-> seed, at |-> at]

\* a chunker that flushes as soon as the budget is reached, not only exceeded
ExceedsBudgetOrFills(current_length, line_length) ==
    current_length + line_length >= chunk_size

\* the condition of line 28
ExceedsBudget(current_length, line_length) ==
    current_length + line_length > chunk_size

\* line 30: the buffer kept after an emission
SeedBuffer(current_chunk) == LastN(current_chunk, overlap)

RECURSIVE PythonLoop(_, _, _, _, _, _)
PythonLoop(lines, i, out, current_chunk, current_length, seed) ==
    IF i > Len(lines)
    THEN IF current_chunk # <<>>
         THEN Append(out, Emission(current_chunk, seed, 0))
         ELSE out
    ELSE LET line == lines[i]
             line_length == WordCount(line)
         IN  IF ExceedsBudget(current_length, line_length)
             THEN LET kept == SeedBuffer(current_chunk)
                  IN  PythonLoop(lines, i + 1,
                                 Append(out, Emission(current_chunk, seed, i)),
                                 Append(kept, line),
                                 SumWords(kept) + line_length,
                                 Len(kept))
             ELSE PythonLoop(lines, i + 1, out,
                             Append(current_chunk, line),
                             current_length + line_length,
                             seed)

ChunkPython(s) == PythonLoop(SplitLines(s), 1, <<>>, <<>>, 0, 0)

(***************************************************************************)
(* SemanticAnalyzer._chunk_react_components.                               *)
(***************************************************************************)
RECURSIVE ReactLoop(_, _, _, _, _)
ReactLoop(lines, i, out, current_chunk, in_component) ==
    IF i > Len(lines) THEN out
    ELSE LET line == lines[i]
         IN  IF MatchesComponent(line)
             THEN ReactLoop(lines, i + 1,
                            IF current_chunk # <<>>
                            THEN Append(out, Emission(current_chunk, 0, i))
                            ELSE out,
                            <<line>>, TRUE)
             ELSE IF in_component /\ IsCloseBrace(line)
             THEN ReactLoop(lines, i + 1,
                            Append(out, Emission(Append(current_chunk, line), 0, i)),
                            <<>>, FALSE)
             ELSE IF in_component
             THEN ReactLoop(lines, i + 1, out, Append(current_chunk, line), TRUE)
             ELSE ReactLoop(lines, i + 1, out, current_chunk, in_component)

ChunkReactComponents(s) == ReactLoop(SplitLines(s), 1, <<>>, <<>>, FALSE)

\* SemanticAnalyzer._chunk_code: which strategy handles the text
Strategy(s) == IF StartsWithReact(s) THEN "react" ELSE "python"

ChunkCode(s) ==
    IF Strategy(s) = "react" THEN ChunkReactComponents(s) ELSE ChunkPython(s)

\* the List[str] the chunker returns: each emission joined
ChunkTexts(trace) == [k \in 1..Len(trace) |-> Join(trace[k].lines)]

(***************************************************************************)
(* The chunker on its own: any text up to MaxLines lines, any              *)
(* configuration up to the bounds.                                         *)
(***************************************************************************)
RECURSIVE SeqsUpTo(_, _)
SeqsUpTo(S, n) ==
    IF n = 0 THEN {<<>>}
    ELSE LET shorter == SeqsUpTo(S, n - 1)
         IN  shorter \cup {Append(s, x) : s \in shorter, x \in S}

Strings == SeqsUpTo(LineSet, MaxLines) \ {<<>>}

\* the configuration read by SemanticAnalyzer.__init__
ConfigInit ==
    /\ chunk_size \in 1..MaxChunkSize
    /\ overlap \in 0..MaxOverlap

\* a component that takes no part in a specification
ChunkerIdle == code = EmptyString /\ chunks = <<>> /\ cpc = "off"

CallChunkCode ==
    /\ cpc = "ready"
    /\ chunks' = ChunkCode(code)
    /\ cpc' = "done"
    /\ UNCHANGED <<configVars, code, embedVars, indexVars, queryVars>>

(***************************************************************************)
(* Python dicts keep insertion order; assigning to a key that is present   *)
(* replaces its value in place.  A dict is the sequence of its items.      *)
(***************************************************************************)
EmptyDict == <<>>
DictHas(d, key) == \E i \in 1..Len(d) : d[i].key = key
DictGet(d, key) == d[CHOOSE i \in 1..Len(d) : d[i].key = key].val
DictSet(d, key, val) ==
    IF DictHas(d, key)
    THEN [i \in 1..Len(d) |-> IF d[i].key = key THEN [key |-> key, val |-> val] ELSE d[i]]
    ELSE Append(d, [key |-> key, val |-> val])
DictKeys(d) == {d[i].key : i \in 1..Len(d)}

(***************************************************************************)
(* The embedding service.  A request either fails (connection error, or a  *)
(* status raise_for_status rejects) or returns a JSON body; the body's     *)
(* 'embeddings' list may be empty (malformed: indexing [0] raises) or hold *)
(* a vector, which the service may also return empty.                      *)
(***************************************************************************)
EmptyVector == <<>>
Vectors == {<<v>> : v \in 1..NumVectors}
HttpError == [status |-> "error", embeddings |-> <<>>]
Malformed == [status |-> "ok", embeddings |-> <<>>]
Answer(vec) == [status |-> "ok", embeddings |-> <<vec>>]
Responses == {HttpError, Malformed} \cup {Answer(v) : v \in Vectors \cup {EmptyVector}}

\* lines 84-85 raise: raise_for_status(), or ['embeddings'][0] on a body without one
RequestRaises(response) ==
    response.status # "ok" \/ Len(response.embeddings) = 0

\* an except clause that logs and leaves the chunk out of the mapping
EmbedOneSkipFailed(dict, chunk, response) ==
    IF RequestRaises(response)
    THEN dict
    ELSE DictSet(dict, chunk, response.embeddings[1])

\* lines 76-88: the body of the loop for one chunk
EmbedOne(dict, chunk, response) ==
    IF RequestRaises(response)
    THEN DictSet(dict, chunk, EmptyVector)
    ELSE DictSet(dict, chunk, response.embeddings[1])

\* SemanticAnalyzer._generate_embeddings: resp[i] answers the request for texts[i]
RECURSIVE EmbedLoop(_, _, _, _)
EmbedLoop(texts, resp, i, st) ==
    IF i > Len(texts) THEN st
    ELSE EmbedLoop(texts, resp, i + 1,
                   [dict |-> EmbedOne(st.dict, texts[i], resp[i]),
                    requests |-> st.requests + 1,
                    raised |-> FALSE])

GenerateEmbeddings(texts, resp) ==
    EmbedLoop(texts, resp, 1, [dict |-> EmptyDict, requests |-> 0, raised |-> FALSE])

(***************************************************************************)
(* The embedder on its own: any list of up to MaxChunks chunk texts        *)
(* (repeats included) and any answer to each request.                      *)
(***************************************************************************)
ChunkTextSet == {EmptyString, <<TextLine(1)>>, <<TextLine(1), TextLine(2)>>}

SeqsOfLen(S, n) == [1..n -> S]

EmbedderIdle ==
    /\ echunks = <<>>
    /\ responses = <<>>
    /\ embeddings = EmptyDict
    /\ requests = 0
    /\ epc = "off"

CallGenerateEmbeddings ==
    /\ epc = "ready"
    /\ LET r == GenerateEmbeddings(echunks, responses)
       IN  /\ embeddings' = r.dict
           /\ requests' = r.requests
           /\ epc' = IF r.raised THEN "raised" ELSE "done"
    /\ UNCHANGED <<echunks, responses, configVars, chunkVars, indexVars, queryVars>>

(***************************************************************************)
(* CodebaseRAGAssistant._analyze_code_semantics.  A path is the pair of    *)
(* its stem and its suffix.  resp[i] holds the embedding service's answers *)
(* to the requests made for modules[i].                                    *)
(***************************************************************************)
Path(stem, ext) == <<stem, ext>>
EndsWith(file_path, ext) == file_path[2] = ext

\* line 69
IsAnalyzable(file_path) ==
    \E ext \in {".py", ".yaml", ".yml", ".md"} : EndsWith(file_path, ext)

\* SemanticAnalyzer.analyze_code_semantics
AnalyzeOneFile(content, resp) ==
    GenerateEmbeddings(ChunkTexts(ChunkCode(content)), resp).dict

\* line 73: an empty dict is falsy
IsTruthy(dict) == dict # EmptyDict

\* lines 70-71: open() or read() raises for the unreadable-th module, the
\* one file of the tree that cannot be read (0: every file can be read)
ReadRaises(i, unreadable) == i = unreadable

RECURSIVE AnalyzeLoop(_, _, _, _, _)
AnalyzeLoop(mods, resp, unreadable, i, sem) ==
    IF i > Len(mods) THEN [semantics |-> sem, raised |-> FALSE]
    ELSE LET file_path == mods[i].file
         IN  IF ~IsAnalyzable(file_path)
             THEN AnalyzeLoop(mods, resp, unreadable, i + 1, sem)
             ELSE IF ReadRaises(i, unreadable)
             THEN [semantics |-> sem, raised |-> TRUE]
             ELSE LET analysis == AnalyzeOneFile(mods[i].content, resp[i])
                  IN  AnalyzeLoop(mods, resp, unreadable, i + 1,
                                  IF IsTruthy(analysis)
                                  THEN DictSet(sem, file_path, analysis)
                                  ELSE sem)

AnalyzeCodeSemantics(mods, resp, unreadable) ==
    AnalyzeLoop(mods, resp, unreadable, 1, EmptyDict)

\* the requests _analyze_code_semantics makes for a module it reads
NumRequests(module) ==
    IF IsAnalyzable(module.file) THEN Len(ChunkCode(module.content)) ELSE 0

(***************************************************************************)
(* CodebaseRAGAssistant.setup_knowledge_base.                              *)
(***************************************************************************)
\* hash(chunk): a str hash is salted with the process's seed, except that
\* the empty string hashes to 0 in every process
Hash(seed, text) ==
    IF text = EmptyString THEN <<0, text>> ELSE <<seed, text>>

\* an identifier from a hash that is the same in every process
RecordIdUnsalted(file_path, chunk, seed) ==
    [path |-> file_path, hash |-> <<0, chunk>>]

\* line 184: f"{file_path}-{hash(chunk)}"
RecordId(file_path, chunk, seed) ==
    [path |-> file_path, hash |-> Hash(seed, chunk)]

\* lines 181-184: one element of each of the four parallel buffers
Record(file_path, chunk, embedding, seed) ==
    [id |-> RecordId(file_path, chunk, seed),
     document |-> chunk,
     file_path |-> file_path,
     embedding |-> embedding]

\* a filter that lets every entry through
KeepAlways(embedding) == TRUE

\* line 180: if embedding and len(embedding) > 0
KeepRecord(embedding) == embedding # EmptyVector /\ Len(embedding) > 0

\* a threshold that flushes one record late
BufferOverfull(buf) == Len(buf) > batch_size

\* line 188
BufferFull(buf) == Len(buf) >= batch_size

\* collection.add (chromadb >= 0.4.24): a record whose id is already stored
\* is ignored, the others are inserted
CollectionAdd(coll, batch) ==
    coll \cup {batch[i] : i \in {j \in 1..Len(batch) :
                                    \A r \in coll : r.id # batch[j].id}}

\* lines 175 and 179 flattened: the (file, chunk, embedding) entries in
\* iteration order
RECURSIVE Entries(_, _)
Entries(results, i) ==
    IF i > Len(results) THEN <<>>
    ELSE [k \in 1..Len(results[i].val) |->
              [file_path |-> results[i].key,
               chunk |-> results[i].val[k].key,
               embedding |-> results[i].val[k].val]]
         \o Entries(results, i + 1)

(***************************************************************************)
(* cli.main, command "analyze": one process per invocation.                *)
(***************************************************************************)
IndexIdle ==
    /\ modules = <<>>
    /\ kb_exists = FALSE
    /\ store = {}
    /\ pc = "off"
    /\ hash_seed = 0
    /\ semantics = EmptyDict
    /\ flushes = <<>>
    /\ buffer = <<>>
    /\ total_processed = 0
    /\ cursor = 0
    /\ failure = "none"
    /\ run_log = <<>>

\* the answers the embedding service may give during one
\* _analyze_code_semantics: one per request, file by file, up to the file
\* that cannot be read
RECURSIVE AnswerChoices(_, _, _, _)
AnswerChoices(mods, answers, unreadable, i) ==
    IF i > Len(mods) THEN {<<>>}
    ELSE {<<first>> \o rest :
            first \in [1..(IF unreadable \in 1..i THEN 0 ELSE NumRequests(mods[i]))
                          -> answers],
            rest \in AnswerChoices(mods, answers, unreadable, i + 1)}

\* the interpreter starts: cli.py line 15
StartAnalyze ==
    /\ pc = "idle"
    /\ Len(run_log) < MaxRuns
    /\ hash_seed' \in 1..NumSeeds
    /\ pc' = "analyze"
    /\ semantics' = EmptyDict
    /\ flushes' = <<>>
    /\ buffer' = <<>>
    /\ total_processed' = 0
    /\ cursor' = 0
    /\ failure' = "none"
    /\ UNCHANGED <<diskVars, run_log>>
    /\ UNCHANGED <<configVars, chunkVars, embedVars, queryVars>>

\* cli.py line 21: run_analysis, of which phase 3 is _analyze_code_semantics
RunAnalysis ==
    /\ pc = "analyze"
    /\ \E unreadable \in 0..Len(modules) :
       \E resp \in AnswerChoices(modules, {HttpError, Answer(<<1>>)}, unreadable, 1) :
          LET r == AnalyzeCodeSemantics(modules, resp, unreadable)
          IN  /\ semantics' = IF r.raised THEN EmptyDict ELSE r.semantics
              /\ failure' = IF r.raised THEN "read" ELSE "none"
              /\ pc' = IF r.raised THEN "raised" ELSE "analysed"
    /\ UNCHANGED <<diskVars, hash_seed, flushes, buffer, total_processed, cursor, run_log>>
    /\ UNCHANGED <<configVars, chunkVars, embedVars, queryVars>>

\* a lookup that creates the collection when there is none
LookupNeverFails(exists) == FALSE

\* lines 214-217: client.get_collection raises when there is no collection,
\* and setup_knowledge_base raises "No existing knowledge base"
LookupFails(exists) == ~exists

\* a run that logs a failed collection.add and carries on
AfterAddFailureGoOn == "batching"

\* lines 189 and 204 are inside the try of line 150 only: the exception of
\* collection.add is printed and re-raised (lines 220-222)
AfterAddFailure == "raised"

\* cli.py line 22: setup_knowledge_base(results['semantics']) is entered.
\* Lines 150-162 open the client and, for truthy results, get or create the
\* collection; lines 213-218 otherwise look the collection up and return
\* it.  Opening the client and creating the collection can each fail.
SetupOpen ==
    /\ pc = "analysed"
    /\ \E client_ok, collection_ok \in BOOLEAN :
          IF ~client_ok
          THEN /\ collection_ok
               /\ failure' = "client"
               /\ pc' = "raised"
               /\ UNCHANGED kb_exists
          ELSE IF IsTruthy(semantics)
          THEN /\ failure' = IF collection_ok THEN "none" ELSE "collection"
               /\ pc' = IF collection_ok THEN "batching" ELSE "raised"
               /\ kb_exists' = (kb_exists \/ collection_ok)
          ELSE /\ collection_ok
               /\ failure' = IF LookupFails(kb_exists) THEN "no_kb" ELSE "none"
               /\ pc' = IF LookupFails(kb_exists) THEN "raised" ELSE "done"
               /\ UNCHANGED kb_exists
    /\ UNCHANGED <<modules, store, hash_seed, semantics, flushes, buffer,
                   total_processed, cursor, run_log>>
    /\ UNCHANGED <<configVars, chunkVars, embedVars, queryVars>>

\* lines 179-200 for the next (file, chunk, embedding) entry: buffer it if
\* its vector is not empty, and flush the buffer if that fills it.  The
\* collection.add call can fail.
BatchStep ==
    /\ pc = "batching"
    /\ cursor < Len(Entries(semantics, 1))
    /\ LET e == Entries(semantics, 1)[cursor + 1]
           kept == KeepRecord(e.embedding)
           filled == IF kept
                     THEN Append(buffer, Record(e.file_path, e.chunk, e.embedding, hash_seed))
                     ELSE buffer
       IN  /\ cursor' = cursor + 1
           /\ total_processed' = IF kept THEN total_processed + 1 ELSE total_processed
           /\ IF kept /\ BufferFull(filled)
              THEN \E add_ok \in BOOLEAN :
                      IF add_ok
                      THEN /\ store' = CollectionAdd(store, filled)
                           /\ flushes' = Append(flushes, filled)
                           /\ buffer' = <<>>
                           /\ UNCHANGED <<pc, failure>>
                      ELSE /\ buffer' = filled
                           /\ failure' = "add"
                           /\ pc' = AfterAddFailure
                           /\ UNCHANGED <<store, flushes>>
              ELSE /\ buffer' = filled
                   /\ UNCHANGED <<store, flushes, pc, failure>>
    /\ UNCHANGED <<modules, kb_exists, hash_seed, semantics, run_log>>
    /\ UNCHANGED <<configVars, chunkVars, embedVars, queryVars>>

\* lines 202-212 and 218: after the loop, what is left in the buffer is
\* flushed (the buffers are not reset afterwards) and the collection returned
FinalFlush ==
    /\ pc = "batching"
    /\ cursor = Len(Entries(semantics, 1))
    /\ IF buffer # <<>>
       THEN \E add_ok \in BOOLEAN :
               IF add_ok
               THEN /\ store' = CollectionAdd(store, buffer)
                    /\ flushes' = Append(flushes, buffer)
                    /\ pc' = "done"
                    /\ UNCHANGED failure
               ELSE /\ failure' = "add"
                    /\ pc' = AfterAddFailure
                    /\ UNCHANGED <<store, flushes>>
       ELSE /\ pc' = "done"
            /\ UNCHANGED <<store, flushes, failure>>
    /\ UNCHANGED <<modules, kb_exists, hash_seed, semantics, buffer,
                   total_processed, cursor, run_log>>
    /\ UNCHANGED <<configVars, chunkVars, embedVars, queryVars>>

RECURSIVE Flatten(_)
Flatten(batches) ==
    IF batches = <<>> THEN <<>> ELSE Head(batches) \o Flatten(Tail(batches))

EntryFailed(e) == ~KeepRecord(e.embedding)

\* what is recorded of a run that completed; of one that raised, only that
\* and what cli.main printed before raising again (cli.py lines 24-26)
RunEntry ==
    IF pc = "done"
    THEN [outcome |-> "done",
          printed |-> <<"Analysis complete">>,
          seed |-> hash_seed,
          ids |-> {Flatten(flushes)[i].id : i \in 1..Len(Flatten(flushes))},
          size |-> Cardinality(store),
          clean |-> \A i \in 1..Len(Entries(semantics, 1)) :
                        ~EntryFailed(Entries(semantics, 1)[i])]
    ELSE [outcome |-> "raised",
          printed |-> <<"Analysis failed">>,
          seed |-> 0, ids |-> {}, size |-> 0, clean |-> FALSE]

\* cli.py lines 23-26: the process ends, normally or with the exception,
\* and its memory is gone
ExitProcess ==
    /\ pc \in {"done", "raised"}
    /\ run_log' = Append(run_log, RunEntry)
    /\ pc' = "idle"
    /\ hash_seed' = 0
    /\ semantics' = EmptyDict
    /\ flushes' = <<>>
    /\ buffer' = <<>>
    /\ total_processed' = 0
    /\ cursor' = 0
    /\ failure' = "none"
    /\ UNCHANGED diskVars
    /\ UNCHANGED <<configVars, chunkVars, embedVars, queryVars>>

(***************************************************************************)
(* cli.main, command "query", and CodebaseRAGAssistant.query_interface.    *)
(***************************************************************************)
QueryIdle ==
    /\ qpc = "off"
    /\ question = "none"
    /\ asked = 0
    /\ calls = <<>>
    /\ qfailure = "none"
    /\ printed = <<>>
    /\ metadatas = <<>>
    /\ unique_files = <<>>

Questions == {"exit", "EXIT", "where is the chunker?"}

\* query.lower()
Lower(q) == IF q = "EXIT" THEN "exit" ELSE q

Call(name, ok) == [q |-> asked, call |-> name, ok |-> ok]

\* cli.py line 32: setup_knowledge_base() without results (lines 150-155,
\* 213-222): open the client, look the collection up
QueryLoadKnowledgeBase ==
    /\ qpc = "start"
    /\ \E client_ok \in BOOLEAN :
          /\ qfailure' = IF ~client_ok THEN "client"
                         ELSE IF LookupFails(kb_exists) THEN "no_kb" ELSE "none"
          /\ qpc' = IF client_ok /\ ~LookupFails(kb_exists) THEN "prompt" ELSE "raised"
    /\ UNCHANGED <<question, asked, calls, printed, metadatas, unique_files>>
    /\ UNCHANGED <<configVars, chunkVars, embedVars, indexVars>>

\* lines 234-236: read a line; 'exit' in any case leaves the loop
ReadQuestion ==
    /\ qpc = "prompt"
    /\ asked < MaxQuestions
    /\ \E q \in Questions :
          /\ question' = q
          /\ qpc' = IF Lower(q) = "exit" THEN "returned" ELSE "embed"
    /\ asked' = asked + 1
    /\ UNCHANGED <<calls, qfailure, printed, metadatas, unique_files>>
    /\ UNCHANGED <<configVars, chunkVars, embedVars, indexVars>>

\* a loop that gives up on the session when the question cannot be embedded
AfterEmbedFailureStop == "raised"

\* lines 253-255: print the error and continue with the next question
AfterEmbedFailure == "prompt"

\* lines 242-255: embed the question
EmbedQuestion ==
    /\ qpc = "embed"
    /\ \E response \in Responses :
          /\ calls' = Append(calls, Call("embed", ~RequestRaises(response)))
          /\ qpc' = IF RequestRaises(response) THEN AfterEmbedFailure ELSE "retrieve"
          /\ qfailure' = IF RequestRaises(response) /\ AfterEmbedFailure = "raised"
                         THEN "embed" ELSE qfailure
          /\ printed' = IF RequestRaises(response)
                        THEN Append(printed, "Error embedding query")
                        ELSE printed
    /\ UNCHANGED <<question, asked, metadatas, unique_files>>
    /\ UNCHANGED <<configVars, chunkVars, embedVars, indexVars>>

Min(a, b) == IF a < b THEN a ELSE b

\* the orders in which the records of a collection may come out of a
\* similarity search
Orderings(coll) ==
    {o \in [1..Cardinality(coll) -> coll] :
        \A i, j \in 1..Cardinality(coll) : i # j => o[i] # o[j]}

\* lines 258-263: the metadata of the n_results nearest records, nearest first
StoreMatches(coll) ==
    {[i \in 1..Min(n_results, Len(o)) |-> [file_path |-> o[i].file_path]] :
        o \in Orderings(coll)}

\* a session that carries on with what it has after a failed store query
AfterQueryFailureGoOn == "rank"

\* line 258 is outside any try: the exception leaves query_interface
AfterQueryFailure == "raised"

\* lines 258-263: collection.query, outside any try
QueryStore ==
    /\ qpc = "retrieve"
    /\ \/ /\ calls' = Append(calls, Call("query", TRUE))
          /\ qpc' = "rank"
          /\ metadatas' \in StoreMatches(store)
          /\ UNCHANGED qfailure
       \/ /\ calls' = Append(calls, Call("query", FALSE))
          /\ qpc' = AfterQueryFailure
          /\ qfailure' = IF AfterQueryFailure = "raised" THEN "store_query" ELSE qfailure
          /\ UNCHANGED metadatas
    /\ UNCHANGED <<question, asked, printed, unique_files>>
    /\ UNCHANGED <<configVars, chunkVars, embedVars, indexVars>>

\* lines 266-269: file_counts, a dict in order of first appearance
RECURSIVE FileCounts(_, _, _)
FileCounts(mds, i, file_counts) ==
    IF i > Len(mds) THEN file_counts
    ELSE LET fp == mds[i].file_path
             seen == IF DictHas(file_counts, fp) THEN DictGet(file_counts, fp) ELSE 0
         IN  FileCounts(mds, i + 1, DictSet(file_counts, fp, seen + 1))

\* file_counts.keys(): the keys in insertion order
DictKeyList(d) == [i \in 1..Len(d) |-> d[i].key]

InsertAt(s, k, x) == SubSeq(s, 1, k - 1) \o <<x>> \o SubSeq(s, k, Len(s))

\* a sort that puts a key before the keys it ties with
InsertBeforeTies(sorted, x, file_counts) ==
    LET before == {k \in 1..Len(sorted) :
                      DictGet(file_counts, sorted[k]) <= DictGet(file_counts, x)}
    IN  IF before = {} THEN Append(sorted, x)
        ELSE InsertAt(sorted, CHOOSE k \in before : \A l \in before : k <= l, x)

\* sorted(..., reverse=True) is stable: a key goes before the first key of
\* a strictly smaller count, hence after the keys it ties with
InsertStable(sorted, x, file_counts) ==
    LET smaller == {k \in 1..Len(sorted) :
                       DictGet(file_counts, sorted[k]) < DictGet(file_counts, x)}
    IN  IF smaller = {} THEN Append(sorted, x)
        ELSE InsertAt(sorted, CHOOSE k \in smaller : \A l \in smaller : k <= l, x)

\* lines 280-282: sorted(file_counts.keys(), key=count, reverse=True)
RECURSIVE SortedByCount(_, _, _, _)
SortedByCount(keys, i, sorted, file_counts) ==
    IF i > Len(keys) THEN sorted
    ELSE SortedByCount(keys, i + 1, InsertStable(sorted, keys[i], file_counts),
                       file_counts)

\* lines 266-282: the ranked files, cut to the first top_files
RankFiles(mds) ==
    LET file_counts == FileCounts(mds, 1, EmptyDict)
        ranked == SortedByCount(DictKeyList(file_counts), 1, <<>>, file_counts)
    IN  SubSeq(ranked, 1, Min(top_files, Len(ranked)))

\* lines 263-284: rank the files of the matches
RankMatches ==
    /\ qpc = "rank"
    /\ unique_files' = RankFiles(metadatas)
    /\ qpc' = "generate"
    /\ UNCHANGED <<question, asked, calls, qfailure, printed, metadatas>>
    /\ UNCHANGED <<configVars, chunkVars, embedVars, indexVars>>

\* lines 292-298: ollama.query_codebase, outside any try
Generate ==
    /\ qpc = "generate"
    /\ \E ok \in BOOLEAN :
          /\ calls' = Append(calls, Call("generate", ok))
          /\ qpc' = IF ok THEN "prompt" ELSE "raised"
          /\ qfailure' = IF ok THEN qfailure ELSE "generation"
    /\ UNCHANGED <<question, asked, printed, metadatas, unique_files>>
    /\ UNCHANGED <<configVars, chunkVars, embedVars, indexVars>>

\* cli.py lines 34-36: whatever the query command raised is reported
ReportQueryFailure ==
    /\ qpc = "raised"
    /\ printed' = printed \o <<"Query failed", "First run: codebase-rag analyze">>
    /\ qpc' = "exited"
    /\ UNCHANGED <<question, asked, calls, qfailure, metadatas, unique_files>>
    /\ UNCHANGED <<configVars, chunkVars, embedVars, indexVars>>

(***************************************************************************)
(* Specifications.                                                         *)
(***************************************************************************)
ChunkerInit ==
    /\ QueryIdle
    /\ ConfigInit
    /\ code \in Strings
    /\ chunks = <<>>
    /\ cpc = "ready"
    /\ EmbedderIdle
    /\ IndexIdle

ChunkerNext == CallChunkCode

SpecChunker == ChunkerInit /\ [][ChunkerNext]_vars

\* the chunker under the default configuration, on files of 1500 and of 50
\* words of text spread over a few lines
LineWords == {0, 10, 25, 50, 250, 500, 750, 1000, 1500}

FileWords == {1500, 50}

DefaultFiles ==
    {f \in UNION {[1..n -> {TextLine(w) : w \in LineWords}] : n \in 1..MaxFileLines} :
        SumWords(f) \in FileWords}

DefaultsInit ==
    /\ QueryIdle
    /\ chunk_size = default_chunk_size
    /\ overlap = default_overlap
    /\ code \in DefaultFiles
    /\ chunks = <<>>
    /\ cpc = "ready"
    /\ EmbedderIdle
    /\ IndexIdle

DefaultsNext == CallChunkCode

SpecDefaults == DefaultsInit /\ [][DefaultsNext]_vars

EmbedderInit ==
    /\ QueryIdle
    /\ chunk_size = 1
    /\ overlap = 0
    /\ ChunkerIdle
    /\ echunks \in SeqsUpTo(ChunkTextSet, MaxChunks)
    /\ responses \in SeqsOfLen(Responses, Len(echunks))
    /\ embeddings = EmptyDict
    /\ requests = 0
    /\ epc = "ready"
    /\ IndexIdle

EmbedderNext == CallGenerateEmbeddings

SpecEmbedder == EmbedderInit /\ [][EmbedderNext]_vars

\* the files a tree may hold: fixed names in walk order, any of a few contents
FileContents ==
    {EmptyString, <<TextLine(1), TextLine(2)>>, <<ImportReactLine>>}

FileNames == <<Path("a", ".py"), Path("b", ".py"), Path("c", ".py")>>

ModuleLists ==
    UNION {{[i \in 1..n |-> [file |-> FileNames[i], content |-> c[i]]] :
                c \in [1..n -> FileContents]} : n \in 0..MaxFiles}

IndexingInit ==
    /\ QueryIdle
    /\ chunk_size = 2
    /\ overlap = 1
    /\ ChunkerIdle
    /\ EmbedderIdle
    /\ modules \in ModuleLists
    /\ kb_exists = FALSE
    /\ store = {}
    /\ pc = "idle"
    /\ hash_seed = 0
    /\ semantics = EmptyDict
    /\ flushes = <<>>
    /\ buffer = <<>>
    /\ total_processed = 0
    /\ cursor = 0
    /\ failure = "none"
    /\ run_log = <<>>

IndexingNext ==
    \/ StartAnalyze
    \/ RunAnalysis
    \/ SetupOpen
    \/ BatchStep
    \/ FinalFlush
    \/ ExitProcess

SpecIndexing == IndexingInit /\ [][IndexingNext]_vars

\* one `codebase-rag analyze` process on a disk that holds no knowledge base,
\* followed to the point where it has completed or raised
AnalyzeNext ==
    \/ StartAnalyze
    \/ RunAnalysis
    \/ SetupOpen
    \/ BatchStep
    \/ FinalFlush

SpecAnalyze == IndexingInit /\ [][AnalyzeNext]_vars

\* setup_knowledge_base on its own, given results large enough to fill batches
RECURSIVE Bits(_)
Bits(k) == IF k = 0 THEN <<>> ELSE Append(Bits(k \div 2), IF k % 2 = 1 THEN "b" ELSE "a")

\* a one-line text that differs for every k >= 1
NumberedText(k) == <<Bits(k)>>

\* an analysis of n chunks, the failed-th of which has an empty vector
Analysis(n, failed) ==
    [k \in 1..n |-> [key |-> NumberedText(k),
                     val |-> IF k = failed THEN EmptyVector ELSE <<1>>]]

ResultsOf(n1, failed, n2) ==
    (IF n1 > 0 THEN <<[key |-> FileNames[1], val |-> Analysis(n1, failed)]>> ELSE <<>>)
        \o (IF n2 > 0 THEN <<[key |-> FileNames[2], val |-> Analysis(n2, 0)]>> ELSE <<>>)

LargeSizes == {b * batch_size + x : b \in 0..MaxBatches, x \in 0..MaxExtra}

LargeResults ==
    UNION {{ResultsOf(n1, failed, n2) : failed \in {0, 1, n1}, n2 \in {0, 1, batch_size}} :
              n1 \in LargeSizes}

BatchInit ==
    /\ QueryIdle
    /\ chunk_size = 1
    /\ overlap = 0
    /\ ChunkerIdle
    /\ EmbedderIdle
    /\ modules = <<>>
    /\ kb_exists = FALSE
    /\ store = {}
    /\ pc = "analysed"
    /\ hash_seed = 1
    /\ semantics \in LargeResults
    /\ flushes = <<>>
    /\ buffer = <<>>
    /\ total_processed = 0
    /\ cursor = 0
    /\ failure = "none"
    /\ run_log = <<>>

BatchNext ==
    \/ SetupOpen
    \/ BatchStep
    \/ FinalFlush

SpecBatch == BatchInit /\ [][BatchNext]_vars

\* the collections a query session may find on disk: none, an empty one,
\* or one with records of two files
QueryStores ==
    {{},
     {Record(Path("a", ".py"), <<TextLine(1)>>, <<1>>, 1),
      Record(Path("a", ".py"), <<TextLine(2)>>, <<1>>, 1),
      Record(Path("b", ".py"), <<TextLine(1)>>, <<2>>, 1)}}

QueryInit ==
    /\ chunk_size = 1
    /\ overlap = 0
    /\ ChunkerIdle
    /\ EmbedderIdle
    /\ modules = <<>>
    /\ kb_exists \in BOOLEAN
    /\ store \in (IF kb_exists THEN QueryStores ELSE {{}})
    /\ pc = "off"
    /\ hash_seed = 0
    /\ semantics = EmptyDict
    /\ flushes = <<>>
    /\ buffer = <<>>
    /\ total_processed = 0
    /\ cursor = 0
    /\ failure = "none"
    /\ run_log = <<>>
    /\ qpc = "start"
    /\ question = "none"
    /\ asked = 0
    /\ calls = <<>>
    /\ qfailure = "none"
    /\ printed = <<>>
    /\ metadatas = <<>>
    /\ unique_files = <<>>

QueryNext ==
    \/ QueryLoadKnowledgeBase
    \/ ReadQuestion
    \/ EmbedQuestion
    \/ QueryStore
    \/ RankMatches
    \/ Generate
    \/ ReportQueryFailure

SpecQuery == QueryInit /\ [][QueryNext]_vars

\* one invocation of the command line, `analyze` or `query`, followed to the
\* end of the process
CliInit == IndexingInit \/ QueryInit

AnalyzeCommand == run_log = <<>> /\ StartAnalyze

CliNext ==
    \/ AnalyzeCommand
    \/ RunAnalysis
    \/ SetupOpen
    \/ BatchStep
    \/ FinalFlush
    \/ ExitProcess
    \/ QueryLoadKnowledgeBase
    \/ ReadQuestion
    \/ EmbedQuestion
    \/ QueryStore
    \/ RankMatches
    \/ Generate
    \/ ReportQueryFailure

SpecCli == CliInit /\ [][CliNext]_vars

\* the file ranking on its own, given any list of raw matches
MatchFile(n) == Path(n, ".py")

\* one file more than the ranking keeps
NumMatchFiles == top_files + 1

MatchLists ==
    UNION {[1..n -> {[file_path |-> MatchFile(f)] : f \in 1..NumMatchFiles}] :
              n \in 0..Min(MaxMatches, n_results)}

RankingInit ==
    /\ chunk_size = 1
    /\ overlap = 0
    /\ ChunkerIdle
    /\ EmbedderIdle
    /\ IndexIdle
    /\ qpc = "rank"
    /\ question = "where is the chunker?"
    /\ asked = 1
    /\ calls = <<Call("embed", TRUE), Call("query", TRUE)>>
    /\ qfailure = "none"
    /\ printed = <<>>
    /\ metadatas \in MatchLists
    /\ unique_files = <<>>

RankingNext == RankMatches

SpecRanking == RankingInit /\ [][RankingNext]_vars

(***************************************************************************)
(* Properties of the chunker.                                              *)
(***************************************************************************)
RECURSIVE IsSubseq(_, _)
IsSubseq(a, b) ==
    IF a = <<>> THEN TRUE
    ELSE IF b = <<>> THEN FALSE
    ELSE IF Head(a) = Head(b) THEN IsSubseq(Tail(a), Tail(b))
    ELSE IsSubseq(a, Tail(b))

\* the lines of the emitted texts, each without the lines seeded from the
\* previous emission
RECURSIVE DeOverlapped(_, _)
DeOverlapped(trace, k) ==
    IF k > Len(trace) THEN <<>>
    ELSE LET text == SplitLines(Join(trace[k].lines))
         IN  SubSeq(text, trace[k].seed + 1, Len(text)) \o DeOverlapped(trace, k + 1)

IsTrailing(c) == c.at = 0

\* C1: for either strategy, the emitted chunks without their seeded overlap
\* lines list every line of the input, in the input's order.
C1_ChunkCoverage ==
    cpc = "done" => IsSubseq(SplitLines(code), DeOverlapped(chunks, 1))

\* C2: chunking the empty string yields no chunk.
C2_EmptyInputNoChunk ==
    (cpc = "done" /\ code = EmptyString) => chunks = <<>>

C7_OverlapBound ==
    (cpc = "done" /\ Strategy(code) = "python") =>
        \A k \in 1..Len(chunks) : chunks[k].seed <= overlap

(***************************************************************************)
(* Properties of the embedder.                                             *)
(***************************************************************************)
\* the vector the code stores for a request answered by response
ResultOf(response) ==
    IF RequestRaises(response) THEN EmptyVector ELSE response.embeddings[1]

\* the last request issued for the text of chunk i
LastRequestFor(i) ==
    CHOOSE j \in 1..Len(echunks) :
        /\ echunks[j] = echunks[i]
        /\ \A k \in (j + 1)..Len(echunks) : echunks[k] # echunks[i]

\* C10 as stated: one request per chunk, no raise, every failed chunk mapped
\* to the empty vector and every successful chunk to the vector returned
\* for it, whatever happens to the other chunks.
C10_EmbedderFailureIsolation ==
    /\ epc # "raised"
    /\ epc = "done" =>
        /\ requests = Len(echunks)
        /\ \A i \in 1..Len(echunks) :
                /\ DictHas(embeddings, echunks[i])
                /\ DictGet(embeddings, echunks[i]) = ResultOf(responses[i])

\* C10 amended: one request per chunk, no raise, and each chunk text is
\* mapped by the outcome of the last request issued for that text: the empty
\* vector if it failed, the returned vector if not; requests for other texts
\* have no influence on it.
C10_LastRequestPerTextDecides ==
    /\ epc # "raised"
    /\ epc = "done" =>
        /\ requests = Len(echunks)
        /\ DictKeys(embeddings) = {echunks[i] : i \in 1..Len(echunks)}
        /\ Len(embeddings) = Cardinality(DictKeys(embeddings))
        /\ \A i \in 1..Len(echunks) :
                DictGet(embeddings, echunks[i]) = ResultOf(responses[LastRequestFor(i)])

\* a failed request between two successful ones, and a text requested twice
\* with a success first and a failure last
C10_Witness ==
    /\ epc = "done"
    /\ Len(echunks) = 3
    /\ echunks[1] = echunks[3]
    /\ echunks[2] # echunks[1]
    /\ ~RequestRaises(responses[1])
    /\ ResultOf(responses[1]) # EmptyVector
    /\ ~RequestRaises(responses[2])
    /\ RequestRaises(responses[3])
    /\ DictGet(embeddings, echunks[2]) = responses[2].embeddings[1]
    /\ DictGet(embeddings, echunks[1]) = EmptyVector

(***************************************************************************)
(* Properties of the indexing run.                                         *)
(***************************************************************************)
\* the records an indexing run is expected to hand to the store: one per
\* entry with a non-empty vector, in production order
Survivors ==
    LET kept == SelectSeq(Entries(semantics, 1), LAMBDA e : e.embedding # EmptyVector)
    IN  [i \in 1..Len(kept) |->
            Record(kept[i].file_path, kept[i].chunk, kept[i].embedding, hash_seed)]

NumFailedEntries ==
    Cardinality({i \in 1..Len(Entries(semantics, 1)) :
                    Entries(semantics, 1)[i].embedding = EmptyVector})

StoreFailures == {"client", "collection", "add", "no_kb"}

\* C3: indexing the same files again, in whatever process, builds the same
\* identifiers and leaves the number of stored records unchanged.
C3_ReindexIdempotent ==
    \A i, j \in 1..Len(run_log) :
        (/\ i < j
         /\ run_log[i].outcome = "done" /\ run_log[i].clean
         /\ run_log[j].outcome = "done" /\ run_log[j].clean)
            => /\ run_log[j].ids = run_log[i].ids
               /\ run_log[j].size = run_log[i].size

\* C5: a file that cannot be read or chunked, or a chunk that cannot be
\* embedded, does not abort the run: only a failure of the store makes an
\* indexing run raise.
C5_PerItemFailureNotFatal ==
    pc = "raised" => failure \in StoreFailures

\* C8: a completed run has handed the store exactly the (file, chunk) pairs
\* with a non-empty vector, none with an empty vector; with exactly one
\* failed embedding among N chunks that is N-1 records; and once a file's
\* chunks are embedded, failed or not, only the store can make the run raise.
C8_PipelineFailureIsolation ==
    /\ (pc = "done" /\ IsTruthy(semantics)) =>
          LET flushed == Flatten(flushes)
          IN  /\ flushed = Survivors
              /\ \A i \in 1..Len(flushed) : flushed[i].embedding # EmptyVector
              /\ \A i \in 1..Len(flushed) : \E r \in store : r.id = flushed[i].id
              /\ NumFailedEntries = 1 =>
                    Len(flushed) = Len(Entries(semantics, 1)) - 1
    /\ (pc = "raised" /\ IsTruthy(semantics)) =>
          failure \in {"client", "collection", "add"}

\* a run over two files and three chunks, one of which failed to embed, has
\* completed with the two others stored
C8_Witness ==
    /\ pc = "done"
    /\ Len(semantics) = 2
    /\ Len(Entries(semantics, 1)) = 3
    /\ NumFailedEntries = 1
    /\ Len(Flatten(flushes)) = 2
    /\ Cardinality(store) = 2

\* the batching parts of C9 that do not mention the buffer at the end
BatchesAsClaimed ==
    /\ pc = "batching" => Len(buffer) < batch_size
    /\ (pc = "done" /\ IsTruthy(semantics)) =>
          /\ Flatten(flushes) = Survivors
          /\ \A k \in 1..Len(flushes) : flushes[k] # <<>>
          /\ \A k \in 1..(Len(flushes) - 1) : Len(flushes[k]) = batch_size
          /\ Len(flushes) > 0 => Len(flushes[Len(flushes)]) <= batch_size
          /\ total_processed = Len(Survivors)

\* C9 as stated: the buffer is flushed whenever it reaches batch_size, and
\* at the end of a run every surviving record has been flushed once, in
\* production order, every flush but the last holds batch_size records, no
\* flush is empty, and the buffer is empty.
C9_BatchedPersistence ==
    /\ BatchesAsClaimed
    /\ (pc = "done" /\ IsTruthy(semantics)) => buffer = <<>>

\* C9 amended: as stated, except that at the end of the run the buffer holds
\* no unflushed record: it is empty when the last flush was a full batch, and
\* otherwise still holds the records of the final partial flush.
C9_BatchedPersistenceNoneUnflushed ==
    /\ BatchesAsClaimed
    /\ (pc = "done" /\ IsTruthy(semantics)) =>
          \/ buffer = <<>>
          \/ /\ Len(flushes) > 0
             /\ buffer = flushes[Len(flushes)]
             /\ Len(buffer) < batch_size

\* a run that flushed two full batches and then a remainder
C9_Witness ==
    /\ pc = "done"
    /\ Len(flushes) = 3
    /\ Len(flushes[1]) = batch_size
    /\ Len(flushes[2]) = batch_size
    /\ Len(flushes[3]) \in 1..(batch_size - 1)
    /\ NumFailedEntries = 1

(***************************************************************************)
(* Properties of the query session.                                        *)
(***************************************************************************)
LastCall == calls[Len(calls)]

\* C4: after a failed vector-store query the session is alive and prompts
\* for the next question, as after a failed embedding of the question.
C4_StoreQueryFailureNonFatal ==
    (/\ Len(calls) > 0
     /\ LastCall.call = "query"
     /\ ~LastCall.ok) => qpc = "prompt"

CallsFor(q) == SelectSeq(calls, LAMBDA c : c.q = q)

CallNames(cs) == [k \in 1..Len(cs) |-> cs[k].call]

IsPrefix(a, b) == Len(a) <= Len(b) /\ SubSeq(b, 1, Len(a)) = a

NumPrinted(line) == Cardinality({k \in 1..Len(printed) : printed[k] = line})

FailedEmbeds == {k \in 1..Len(calls) : calls[k].call = "embed" /\ ~calls[k].ok}

\* C14: a failure embedding a question is printed and is not fatal: no other
\* call is made for that question, the session does not raise because of it,
\* and the loop is back at the prompt for the next question.
C14_EmbedFailureNonFatal ==
    /\ \A k \in FailedEmbeds :
          /\ \A j \in 1..Len(calls) : calls[j].q = calls[k].q => j = k
          /\ k = Len(calls) => (qpc \in {"prompt", "embed", "returned"} /\ qfailure = "none")
          /\ (k = Len(calls) /\ asked = calls[k].q) => qpc = "prompt"
    /\ NumPrinted("Error embedding query") = Cardinality(FailedEmbeds)
    /\ qfailure # "embed"

\* a question could not be embedded and the next one was read and embedded
C14_Witness ==
    /\ Len(calls) >= 2
    /\ calls[1] = [q |-> 1, call |-> "embed", ok |-> FALSE]
    /\ calls[2] = [q |-> 2, call |-> "embed", ok |-> TRUE]
    /\ printed = <<"Error embedding query">>

\* C15: the calls made for a question are, in this order and each at most
\* once, embed, store query, generation; the store is queried only after a
\* successful embedding and generation is called only after both succeeded;
\* 'exit' ends the loop with no call made for it.
C15_CallOrdering ==
    /\ \A k \in 1..(Len(calls) - 1) : calls[k].q <= calls[k + 1].q
    /\ \A k \in 1..Len(calls) : calls[k].q \in 1..asked
    /\ \A q \in 1..asked :
          LET cs == CallsFor(q)
          IN  /\ IsPrefix(CallNames(cs), <<"embed", "query", "generate">>)
              /\ Len(cs) >= 2 => cs[1].ok
              /\ Len(cs) >= 3 => cs[2].ok
    /\ (asked > 0 /\ Lower(question) = "exit") =>
          (qpc = "returned" /\ CallsFor(asked) = <<>>)
    /\ qpc = "returned" => Lower(question) = "exit"

\* a question was embedded, looked up and answered, and the next line read
\* was 'exit'
C15_Witness ==
    /\ qpc = "returned"
    /\ asked = 2
    /\ question = "exit"
    /\ CallNames(calls) = <<"embed", "query", "generate">>
    /\ \A k \in 1..Len(calls) : calls[k].ok /\ calls[k].q = 1

(***************************************************************************)
(* Properties of the command line.                                         *)
(***************************************************************************)
QueryFailureReport == <<"Query failed", "First run: codebase-rag analyze">>

EndsWithReport(out) ==
    /\ Len(out) >= Len(QueryFailureReport)
    /\ SubSeq(out, Len(out) - Len(QueryFailureReport) + 1, Len(out)) = QueryFailureReport

\* C16: a query session on a disk without knowledge base raises before any
\* question is read and before any call is made; cli.main reports a failed
\* query command and tells the user to run analyze first, and ends normally;
\* a failed analyze command is printed and raised again.
C16_MissingKnowledgeBaseFatal ==
    /\ (qpc \notin {"off", "start"} /\ ~kb_exists) =>
          /\ qfailure \in {"no_kb", "client"}
          /\ qpc \in {"raised", "exited"}
          /\ asked = 0
          /\ calls = <<>>
    /\ qfailure = "no_kb" => (~kb_exists /\ asked = 0 /\ calls = <<>>)
    /\ qpc = "raised" => qfailure # "none"
    /\ qpc = "exited" => (qfailure # "none" /\ EndsWithReport(printed))
    /\ pc = "raised" => failure # "none"
    /\ \A i \in 1..Len(run_log) :
          /\ run_log[i].outcome = "raised" <=> run_log[i].printed = <<"Analysis failed">>
          /\ run_log[i].outcome \in {"raised", "done"}

\* the query command found no knowledge base, read no question, and ended
\* after the two lines of the report
C16_Witness ==
    /\ qpc = "exited"
    /\ qfailure = "no_kb"
    /\ ~kb_exists
    /\ asked = 0
    /\ printed = QueryFailureReport

\* C17: setup_knowledge_base called by an indexing run, on whatever results
\* (the empty mapping included), does not fail for lack of a knowledge base,
\* and when it returns the collection exists.
C17_FirstRunCreatesKnowledgeBase ==
    /\ failure # "no_kb"
    /\ pc = "done" => kb_exists

(***************************************************************************)
(* Properties of a failed flush.                                           *)
(***************************************************************************)
IsStrictPrefix(a, b) == Len(a) < Len(b) /\ SubSeq(b, 1, Len(a)) = a

StoredByRun == {Flatten(flushes)[i] : i \in 1..Len(Flatten(flushes))}

AddFailed ==
    /\ failure = "add" =>
          /\ pc = "raised"
          /\ IsStrictPrefix(Flatten(flushes), Survivors)
          /\ \A k \in 1..Len(flushes) : Len(flushes[k]) = batch_size
          /\ StoredByRun \subseteq store
          /\ \A r \in store : r \in StoredByRun
    /\ pc = "raised" => failure \in {"client", "collection", "add", "no_kb"}

\* C19: when a collection.add fails the run raises, no batch is flushed
\* afterwards, and the batches flushed before stay in the store: the store
\* holds a strict prefix of the records of the run.
C19_FlushFailureKeepsPrefix ==
    /\ []AddFailed
    /\ [][failure = "add" => (store' = store /\ flushes' = flushes /\ pc' = "raised")]_vars

\* the second batch of a run failed after the first was stored
C19_Witness ==
    /\ failure = "add"
    /\ pc = "raised"
    /\ Len(flushes) = 1
    /\ Cardinality(store) = batch_size
    /\ Len(buffer) = batch_size

(***************************************************************************)
(* Properties of the file ranking.                                         *)
(***************************************************************************)
MatchedFiles(mds) == {mds[i].file_path : i \in 1..Len(mds)}

Occurrences(mds, f) == Cardinality({i \in 1..Len(mds) : mds[i].file_path = f})

FirstSeen(mds, f) ==
    CHOOSE i \in 1..Len(mds) :
        /\ mds[i].file_path = f
        /\ \A j \in 1..(i - 1) : mds[j].file_path # f

\* f ranks before g: more occurrences, or as many and seen first
RanksBefore(mds, f, g) ==
    \/ Occurrences(mds, f) > Occurrences(mds, g)
    \/ /\ Occurrences(mds, f) = Occurrences(mds, g)
       /\ FirstSeen(mds, f) < FirstSeen(mds, g)

FilesOf(names) == [i \in 1..Len(names) |-> [file_path |-> MatchFile(names[i])]]

\* C11: the ranked files are distinct source files of the raw matches, in
\* order of occurrence count descending with ties in order of first
\* appearance, and they are the first top_files (5) of that order; matches
\* from [A, B, A, C] rank as [A, B, C].
C11_FileRanking ==
    qpc = "generate" =>
        /\ \A i \in 1..Len(unique_files) : unique_files[i] \in MatchedFiles(metadatas)
        /\ \A i, j \in 1..Len(unique_files) :
              i < j => RanksBefore(metadatas, unique_files[i], unique_files[j])
        /\ Len(unique_files) = Min(top_files, Cardinality(MatchedFiles(metadatas)))
        /\ \A f \in MatchedFiles(metadatas) :
              (\A i \in 1..Len(unique_files) : unique_files[i] # f) =>
                  \A i \in 1..Len(unique_files) :
                      RanksBefore(metadatas, unique_files[i], f)
        /\ metadatas = FilesOf(<<1, 2, 1, 3>>) =>
              unique_files = <<MatchFile(1), MatchFile(2), MatchFile(3)>>

\* six matches from six files: the ranking keeps the first five as they came
C11_Witness ==
    /\ qpc = "generate"
    /\ metadatas = FilesOf(<<2, 1, 3, 6, 5, 4>>)
    /\ unique_files = <<MatchFile(2), MatchFile(1), MatchFile(3), MatchFile(6), MatchFile(5)>>

\* C13: text routed to the component strategy that holds no line matching
\* 'export (default )?(function|const) <Capital>' is chunked as the generic
\* strategy chunks it.
C13_ComponentFallback ==
    (/\ cpc = "done"
     /\ Strategy(code) = "react"
     /\ \A i \in 1..Len(SplitLines(code)) : ~MatchesComponent(SplitLines(code)[i])) =>
        ChunkTexts(chunks) = ChunkTexts(ChunkPython(code))

\* C18: for a non-empty input every chunk of the generic chunker holds at
\* least one input line; none is built from an empty buffer.
C18_NoEmptyBufferChunk ==
    (cpc = "done" /\ Strategy(code) = "python" /\ code # EmptyString) =>
        \A k \in 1..Len(chunks) : chunks[k].lines # <<>>

(***************************************************************************)
(* Properties of the chunker under the default configuration.              *)
(***************************************************************************)
\* C12: with chunk size 1024 and overlap 128 a file of 1500 words yields
\* exactly 2 chunks and a file of 50 words exactly 1, however the words are
\* spread over the lines.
C12_EndToEndChunkCounts ==
    (cpc = "done" /\ chunk_size = default_chunk_size /\ overlap = default_overlap) =>
        /\ SumWords(code) = 1500 => Len(chunks) = 2
        /\ SumWords(code) = 50 => Len(chunks) = 1

====
